---- MODULE Spec2Model ----
(***************************************************************************)
(* Model of src/app.py: the five-stage LangGraph pipeline, the model       *)
(* client factory get_llm with its proxy clear/restore, the single-agent   *)
(* endpoint process_agent and the startup hook.                            *)
(*                                                                         *)
(* Texts are sequences of tokens: the empty text is <<>>, concatenation    *)
(* (an f-string) is \o.  Temperatures are in tenths (0.9 is 9).            *)
(***************************************************************************)
EXTENDS Integers, Sequences, FiniteSets, TLC

\* ------------------------------------------------------------------ bounds
\* Number of request slots (tasks / threads) of the process.
NumProcs == 2

Procs == 1..NumProcs

\* ------------------------------------------------------- values and inputs
None == "None"
\* A proxy variable that is not in os.environ.
Unset == <<>>
\* The value a proxy variable holds when it is set: one per variable, all
\* distinct, so that a value written to the wrong variable shows.
ProxyValue(var) == <<"proxy of", var>>

\* Texts the model may return, the empty text included.
ModelTexts == {<<>>, <<"a", "b">>}
\* Texts a caller may send.
UserInputs == {<<>>, <<"idea">>}
Contexts == {<<>>, <<"ctx">>}

\* OPENAI_API_KEY in the environment: absent (os.getenv gives None), or a
\* string of characters.
Absent == [present |-> FALSE, value |-> <<>>]
Key(chars) == [present |-> TRUE, value |-> chars]
ApiKeys == {Absent, Key(<<>>), Key(<<"p", "k", "-", "1">>),
            Key(<<"s", "k", "-", "1">>)}

\* ------------------------------------------------------------ pure helpers
startswith(s, prefix) ==
    /\ Len(s) >= Len(prefix)
    /\ SubSeq(s, 1, Len(prefix)) = prefix

\* Python's `sub in s` on texts.
Contains(s, sub) ==
    \E i \in 0..(Len(s) - Len(sub)) : SubSeq(s, i + 1, i + Len(sub)) = sub

\* api_key[:n] and api_key[-n:]
Prefix(s, n) == SubSeq(s, 1, IF Len(s) < n THEN Len(s) ELSE n)
Suffix(s, n) == SubSeq(s, IF Len(s) < n THEN 1 ELSE Len(s) - n + 1, Len(s))

\* Mutant: the format of the key is not validated.
get_api_key_any_format(api_key) ==
    IF ~api_key.present \/ api_key.value = <<>>
    THEN [ok |-> FALSE, error |-> "OPENAI_API_KEY nao encontrada"]
    ELSE [ok |-> TRUE, error |-> None]

\* get_api_key: the key, or the ValueError it raises.
get_api_key(api_key) ==
    IF ~api_key.present \/ api_key.value = <<>>
    THEN [ok |-> FALSE, error |-> "OPENAI_API_KEY nao encontrada"]
    ELSE IF ~(startswith(api_key.value, <<"s", "k", "-">>)
              \/ startswith(api_key.value,
                            <<"s", "k", "-", "p", "r", "o", "j", "-">>))
    THEN [ok |-> FALSE, error |-> "OPENAI_API_KEY com formato invalido"]
    ELSE [ok |-> TRUE, error |-> None]

\* get_llm's proxy_vars, in the order the code walks them.
proxy_vars == <<"HTTP_PROXY", "HTTPS_PROXY", "http_proxy", "https_proxy">>
ProxyVarSet == {proxy_vars[i] : i \in 1..Len(proxy_vars)}

\* ---------------------------------------------------------- agent registry
AgentIds == {"discovery", "structure", "design", "implementation", "refinement"}

AGENTS_CONFIG ==
    [a \in AgentIds |->
        [name |-> <<"name", a>>,
         system_prompt |-> <<"system_prompt", a>>,
         temperature |-> IF a = "discovery" THEN 9 ELSE 7]]

\* Identifiers a caller may send to process_agent.
RequestIds == AgentIds \cup {"unknown", ""}

SystemMessage(content) == [type |-> "system", content |-> content]
HumanMessage(content) == [type |-> "human", content |-> content]

\* ------------------------------------------------------------- AgentState
Slot(a) ==
    CASE a = "discovery" -> "discovery_output"
      [] a = "structure" -> "structure_output"
      [] a = "design" -> "design_output"
      [] a = "implementation" -> "implementation_output"
      [] a = "refinement" -> "refinement_output"

\* The state a caller hands to the graph: the input set, every slot empty.
InitialState(user_input) ==
    [user_input |-> user_input,
     discovery_output |-> <<>>,
     structure_output |-> <<>>,
     design_output |-> <<>>,
     implementation_output |-> <<>>,
     refinement_output |-> <<>>,
     current_step |-> <<>>,
     error |-> <<>>]

NoState == InitialState(<<>>)

\* ------------------------------------------------------------ stage nodes
\* Mutant: implementation is given the design output only.
NodeContext_design_only(a, state) ==
    CASE a = "discovery" -> state.user_input
      [] a = "structure" -> <<"Analise:\n">> \o state.discovery_output
      [] a = "design" -> <<"Estrutura:\n">> \o state.structure_output
      [] a = "implementation" -> <<"Design:\n">> \o state.design_output
      [] a = "refinement" -> <<"Codigo:\n">> \o state.implementation_output

\* The text each node sends as its HumanMessage.
NodeContext(a, state) ==
    CASE a = "discovery" -> state.user_input
      [] a = "structure" -> <<"Analise:\n">> \o state.discovery_output
      [] a = "design" -> <<"Estrutura:\n">> \o state.structure_output
      [] a = "implementation" ->
            <<"Design:\n">> \o state.design_output
               \o <<"\n\nEstrutura:\n">> \o state.structure_output
      [] a = "refinement" -> <<"Codigo:\n">> \o state.implementation_output

\* Mutant: every node calls get_llm() with its defaults.
NodeLlmArgs_all_default(a) == [temperature |-> 7, max_tokens |-> 4000]

\* The arguments each node gives get_llm (defaults: 0.7 and 4000).
NodeLlmArgs(a) ==
    CASE a = "discovery" -> [temperature |-> 9, max_tokens |-> 1500]
      [] a = "structure" -> [temperature |-> 7, max_tokens |-> 1500]
      [] a = "design" -> [temperature |-> 7, max_tokens |-> 1500]
      [] a = "implementation" -> [temperature |-> 7, max_tokens |-> 4000]
      [] a = "refinement" -> [temperature |-> 7, max_tokens |-> 4000]

NodeMessages(a, state) ==
    <<SystemMessage(AGENTS_CONFIG[a].system_prompt),
      HumanMessage(NodeContext(a, state))>>

\* Mutant: every node writes the first slot.
NodeWrite_first_slot(a, state, content) ==
    [state EXCEPT !.discovery_output = content, !.current_step = <<a>>]

\* Mutant: the node does not advance the marker.
NodeWrite_no_marker(a, state, content) ==
    [state EXCEPT ![Slot(a)] = content]

\* Mutant: the node returns a new state that holds its own output only.
NodeWrite_fresh_state(a, state, content) ==
    [InitialState(<<>>) EXCEPT ![Slot(a)] = content, !.current_step = <<a>>]

\* A node's writes once llm.invoke has returned `content`.
NodeWrite(a, state, content) ==
    [state EXCEPT ![Slot(a)] = content, !.current_step = <<a>>]

\* --------------------------------------------------------------- the graph
END == "__end__"

\* The global `graph` before startup_event builds it (None in the code).
NoGraph == [entry_point |-> None, edges |-> [a \in {} |-> END]]

\* Mutant: the edge out of design skips implementation.
build_graph_skip ==
    [entry_point |-> "discovery",
     edges |-> [a \in AgentIds |->
                  CASE a = "discovery" -> "structure"
                    [] a = "structure" -> "design"
                    [] a = "design" -> "refinement"
                    [] a = "implementation" -> "refinement"
                    [] a = "refinement" -> END]]

build_graph ==
    [entry_point |-> "discovery",
     edges |-> [a \in AgentIds |->
                  CASE a = "discovery" -> "structure"
                    [] a = "structure" -> "design"
                    [] a = "design" -> "implementation"
                    [] a = "implementation" -> "refinement"
                    [] a = "refinement" -> END]]

\* ---------------------------------------------------------- process_agent
\* Mutant: the user input is sent whenever there is one.
process_agent_messages_input_first(agent_id, user_input, context) ==
    <<SystemMessage(AGENTS_CONFIG[agent_id].system_prompt)>>
    \o (IF context # <<>>
        THEN <<HumanMessage(<<"Contexto:\n">> \o context)>>
        ELSE <<>>)
    \o <<HumanMessage(IF agent_id = "discovery" \/ user_input # <<>>
                      THEN user_input
                      ELSE <<"Continue.">>)>>

process_agent_messages(agent_id, user_input, context) ==
    <<SystemMessage(AGENTS_CONFIG[agent_id].system_prompt)>>
    \o (IF context # <<>>
        THEN <<HumanMessage(<<"Contexto:\n">> \o context)>>
        ELSE <<>>)
    \o <<HumanMessage(IF agent_id = "discovery" THEN user_input
                      ELSE <<"Continue.">>)>>

\* ------------------------------------------------------------------ state
VARIABLES
    env,             \* os.environ restricted to the four proxy variables
    OPENAI_API_KEY,  \* os.environ['OPENAI_API_KEY'], or Absent
    graph,           \* the global compiled graph, NoGraph until startup builds it
    started,         \* startup_event has run
    stdout,          \* the lines startup_event printed
    pc,              \* per task: where its control is
    kind,            \* per task: "run" (graph.invoke), "single" (process_agent),
                     \*           "llm" (a bare get_llm call)
    data,            \* per task: the ProcessAgentRequest
    state,           \* per task: the AgentState of its pipeline run
    node,            \* per task: the graph node being executed
    llm_args,        \* per task: get_llm's temperature and max_tokens
    vi,              \* per task: index into proxy_vars of get_llm's loops
    old_proxies,     \* per task: get_llm's old_proxies (Unset: not a key)
    env_before,      \* per task: os.environ as it was when get_llm was entered
    llm,             \* per task: the ChatOpenAI client, NoLlm until constructed
    messages,        \* per task: the message list given to llm.invoke
    calls,           \* per task: the llm.invoke calls made, in order: the agent,
                     \*           pending / returned / failed, the text returned
    exc,             \* per task: the exception in flight or raised, None if none
    result           \* per task: what the caller received

vars == <<env, OPENAI_API_KEY, graph, started, stdout, pc, kind, data, state,
          node, llm_args, vi, old_proxies, env_before, llm, messages, calls,
          exc, result>>

globals == <<OPENAI_API_KEY, graph, started, stdout>>

NoData == [agent_id |-> "", user_input |-> <<>>, context |-> <<>>]
NoArgs == [temperature |-> 0, max_tokens |-> 0]
NoProxies == [v \in ProxyVarSet |-> Unset]
NoLlm == [model |-> None, temperature |-> 0, max_tokens |-> 0]
NoResult == [outcome |-> None, status |-> 0, body |-> None]

Init ==
    /\ \E set \in SUBSET ProxyVarSet :
         env = [v \in ProxyVarSet |-> IF v \in set THEN ProxyValue(v) ELSE Unset]
    /\ OPENAI_API_KEY \in ApiKeys
    /\ graph = NoGraph
    /\ started = FALSE
    /\ stdout = <<>>
    /\ pc = [p \in Procs |-> "idle"]
    /\ kind = [p \in Procs |-> None]
    /\ data = [p \in Procs |-> NoData]
    /\ state = [p \in Procs |-> NoState]
    /\ node = [p \in Procs |-> None]
    /\ llm_args = [p \in Procs |-> NoArgs]
    /\ vi = [p \in Procs |-> 0]
    /\ old_proxies = [p \in Procs |-> NoProxies]
    /\ env_before = [p \in Procs |-> NoProxies]
    /\ llm = [p \in Procs |-> NoLlm]
    /\ messages = [p \in Procs |-> <<>>]
    /\ calls = [p \in Procs |-> <<>>]
    /\ exc = [p \in Procs |-> None]
    /\ result = [p \in Procs |-> NoResult]

\* An entry of the call log.
Call(agent, status, content) ==
    [agent |-> agent, status |-> status, content |-> content]

\* The log with its last call, pending until now, settled.
Settle(log, status, content) ==
    [log EXCEPT ![Len(log)] = Call(@.agent, status, content)]

\* ---------------------------------------------------------------- startup
\* The diagnostic line of the key: api_key[:15] + "..." + api_key[-5:].
KeyDiagnostic(api_key) ==
    <<"API Key: ">> \o Prefix(api_key.value, 15) \o <<"...">>
        \o Suffix(api_key.value, 5)

\* Mutant: the graph is built before the key is checked.
startup_event_graph_first ==
    /\ ~started
    /\ started' = TRUE
    /\ graph' = build_graph
    /\ LET k == get_api_key(OPENAI_API_KEY) IN
         stdout' = IF k.ok
                   THEN <<<<"banner">>, KeyDiagnostic(OPENAI_API_KEY),
                          <<"LangGraph compilado">>, <<"Sistema pronto">>,
                          <<"Acesse">>>>
                   ELSE <<<<"banner">>, <<"Erro: ", k.error>>, <<"Acesse">>>>
    /\ UNCHANGED <<env, OPENAI_API_KEY, pc, kind, data, state, node, llm_args,
                   vi, old_proxies, env_before, llm, messages, calls, exc,
                   result>>

startup_event ==
    /\ ~started
    /\ started' = TRUE
    /\ LET k == get_api_key(OPENAI_API_KEY) IN
         IF k.ok
         THEN /\ graph' = build_graph
              /\ stdout' = <<<<"banner">>, KeyDiagnostic(OPENAI_API_KEY),
                             <<"LangGraph compilado">>, <<"Sistema pronto">>,
                             <<"Acesse">>>>
         ELSE /\ graph' = graph
              /\ stdout' = <<<<"banner">>, <<"Erro: ", k.error>>, <<"Acesse">>>>
    /\ UNCHANGED <<env, OPENAI_API_KEY, pc, kind, data, state, node, llm_args,
                   vi, old_proxies, env_before, llm, messages, calls, exc,
                   result>>

\* ----------------------------------------------------------------- get_llm
\* The call get_llm(temperature, max_tokens) by task p: control enters the
\* dict comprehension with an empty old_proxies.
EnterGetLlm(p, args) ==
    /\ llm_args' = [llm_args EXCEPT ![p] = args]
    /\ vi' = [vi EXCEPT ![p] = 1]
    /\ old_proxies' = [old_proxies EXCEPT ![p] = NoProxies]
    /\ env_before' = [env_before EXCEPT ![p] = env]
    /\ llm' = [llm EXCEPT ![p] = NoLlm]
    /\ pc' = [pc EXCEPT ![p] = "glm_test"]

\* Control leaves get_llm: its locals are gone.
LeaveGetLlm(p) ==
    /\ vi' = [vi EXCEPT ![p] = 0]
    /\ old_proxies' = [old_proxies EXCEPT ![p] = NoProxies]

\* Where control goes when get_llm returns the client to its caller.
AfterGetLlm(k) ==
    CASE k = "run" -> "node_invoke"
      [] k = "single" -> "pa_invoke"
      [] k = "llm" -> "done"

\* What the caller of task p receives when exception e leaves its handler:
\* graph.invoke re-raises it; process_agent's except turns it into a 500.
Raised(k, e) ==
    IF k = "single"
    THEN [outcome |-> "http_error", status |-> 500, body |-> e]
    ELSE [outcome |-> "exception", status |-> 0, body |-> e]

\* The comprehension's condition `var in os.environ`.
GlmTest(p) ==
    /\ pc[p] = "glm_test"
    /\ IF env[proxy_vars[vi[p]]] # Unset
       THEN /\ pc' = [pc EXCEPT ![p] = "glm_pop"]
            /\ vi' = vi
       ELSE IF vi[p] < Len(proxy_vars)
       THEN /\ pc' = pc
            /\ vi' = [vi EXCEPT ![p] = @ + 1]
       ELSE /\ pc' = [pc EXCEPT ![p] = "glm_key"]
            /\ vi' = vi
    /\ UNCHANGED <<env, globals, kind, data, state, node, llm_args,
                   old_proxies, env_before, llm, messages, calls, exc, result>>

\* The comprehension's value os.environ.pop(var): a KeyError when the
\* variable is gone, which leaves get_llm before its try block.
GlmPop(p) ==
    /\ pc[p] = "glm_pop"
    /\ LET var == proxy_vars[vi[p]] IN
         IF env[var] # Unset
         THEN /\ old_proxies' = [old_proxies EXCEPT ![p][var] = env[var]]
              /\ env' = [env EXCEPT ![var] = Unset]
              /\ IF vi[p] < Len(proxy_vars)
                 THEN /\ pc' = [pc EXCEPT ![p] = "glm_test"]
                      /\ vi' = [vi EXCEPT ![p] = @ + 1]
                 ELSE /\ pc' = [pc EXCEPT ![p] = "glm_key"]
                      /\ vi' = vi
              /\ UNCHANGED <<exc, result>>
         ELSE /\ exc' = [exc EXCEPT ![p] = "KeyError"]
              /\ result' = [result EXCEPT ![p] = Raised(kind[p], "KeyError")]
              /\ pc' = [pc EXCEPT ![p] =
                          IF kind[p] = "single" THEN "done" ELSE "raised"]
              /\ LeaveGetLlm(p)
              /\ env' = env
    /\ UNCHANGED <<globals, kind, data, state, node, llm_args, env_before,
                   llm, messages, calls>>

\* api_key = get_api_key(), inside the try block.
GlmKey(p) ==
    /\ pc[p] = "glm_key"
    /\ LET k == get_api_key(OPENAI_API_KEY) IN
         IF k.ok
         THEN /\ pc' = [pc EXCEPT ![p] = "glm_construct"]
              /\ exc' = exc
         ELSE /\ pc' = [pc EXCEPT ![p] = "glm_restore_err"]
              /\ exc' = [exc EXCEPT ![p] = "ValueError"]
    /\ vi' = [vi EXCEPT ![p] = 1]
    /\ UNCHANGED <<env, globals, kind, data, state, node, llm_args,
                   old_proxies, env_before, llm, messages, calls, result>>

\* llm = ChatOpenAI(...): the client, or the constructor's exception.
GlmConstruct(p) ==
    /\ pc[p] = "glm_construct"
    /\ \E ok \in BOOLEAN :
         IF ok
         THEN /\ llm' = [llm EXCEPT ![p] =
                          [model |-> "gpt-4o-mini",
                           temperature |-> llm_args[p].temperature,
                           max_tokens |-> llm_args[p].max_tokens]]
              /\ pc' = [pc EXCEPT ![p] = "glm_restore"]
              /\ exc' = exc
         ELSE /\ llm' = llm
              /\ pc' = [pc EXCEPT ![p] = "glm_restore_err"]
              /\ exc' = [exc EXCEPT ![p] = "ClientError"]
    /\ UNCHANGED <<env, globals, kind, data, state, node, llm_args, vi,
                   old_proxies, env_before, messages, calls, result>>

\* The keys of old_proxies the restore loop has still to write, from
\* position i of proxy_vars on (a dict keeps insertion order).
Pending(p, i) ==
    {j \in i..Len(proxy_vars) : old_proxies[p][proxy_vars[j]] # Unset}

Min(S) == CHOOSE x \in S : \A y \in S : x <= y

\* One iteration of `for var, value in old_proxies.items():
\* os.environ[var] = value`.
RestoreOne(p) ==
    LET j == Min(Pending(p, vi[p])) IN
    /\ env' = [env EXCEPT ![proxy_vars[j]] = old_proxies[p][proxy_vars[j]]]
    /\ vi' = [vi EXCEPT ![p] = j + 1]
    /\ old_proxies' = old_proxies

\* Mutant: the client is returned without the restore loop of the try block.
GlmRestore_no_restore(p) ==
    /\ pc[p] = "glm_restore"
    /\ pc' = [pc EXCEPT ![p] = AfterGetLlm(kind[p])]
    /\ result' = [result EXCEPT ![p] =
                    IF kind[p] = "llm"
                    THEN [outcome |-> "llm", status |-> 0, body |-> llm[p]]
                    ELSE @]
    /\ LeaveGetLlm(p)
    /\ UNCHANGED <<env, globals, kind, data, state, node, llm_args,
                   env_before, llm, messages, calls, exc>>

\* The restore loop of the try block, then `return llm`.
GlmRestore(p) ==
    /\ pc[p] = "glm_restore"
    /\ IF Pending(p, vi[p]) # {}
       THEN /\ RestoreOne(p)
            /\ UNCHANGED <<pc, result, old_proxies>>
       ELSE /\ pc' = [pc EXCEPT ![p] = AfterGetLlm(kind[p])]
            /\ result' = [result EXCEPT ![p] =
                            IF kind[p] = "llm"
                            THEN [outcome |-> "llm", status |-> 0,
                                  body |-> llm[p]]
                            ELSE @]
            /\ LeaveGetLlm(p)
            /\ env' = env
    /\ UNCHANGED <<globals, kind, data, state, node, llm_args, env_before,
                   llm, messages, calls, exc>>

\* Mutant: the except block raises without its restore loop.
GlmRestoreErr_no_restore(p) ==
    /\ pc[p] = "glm_restore_err"
    /\ pc' = [pc EXCEPT ![p] = IF kind[p] = "single" THEN "done" ELSE "raised"]
    /\ result' = [result EXCEPT ![p] = Raised(kind[p], exc[p])]
    /\ LeaveGetLlm(p)
    /\ UNCHANGED <<env, globals, kind, data, state, node, llm_args,
                   env_before, llm, messages, calls, exc>>

\* The restore loop of the except block, then `raise e`.
GlmRestoreErr(p) ==
    /\ pc[p] = "glm_restore_err"
    /\ IF Pending(p, vi[p]) # {}
       THEN /\ RestoreOne(p)
            /\ UNCHANGED <<pc, result, old_proxies>>
       ELSE /\ pc' = [pc EXCEPT ![p] =
                        IF kind[p] = "single" THEN "done" ELSE "raised"]
            /\ result' = [result EXCEPT ![p] = Raised(kind[p], exc[p])]
            /\ LeaveGetLlm(p)
            /\ env' = env
    /\ UNCHANGED <<globals, kind, data, state, node, llm_args, env_before,
                   llm, messages, calls, exc>>

\* ------------------------------------------------------------ pipeline run
\* No other task is between its start and its end: requests served one at a
\* time (process_agent is a coroutine without an await, so it runs to its
\* end on the event loop before the next request is taken).
Alone(p) == \A q \in Procs \ {p} : pc[q] = "idle"

\* A caller starts a run of the compiled graph on an input: control is at
\* the entry point.
StartRun(p, user_input) ==
    /\ started
    /\ graph # NoGraph
    /\ pc[p] = "idle"
    /\ Alone(p)
    /\ kind' = [kind EXCEPT ![p] = "run"]
    /\ state' = [state EXCEPT ![p] = InitialState(user_input)]
    /\ node' = [node EXCEPT ![p] = graph.entry_point]
    /\ pc' = [pc EXCEPT ![p] = "node"]
    /\ UNCHANGED <<env, globals, data, llm_args, vi, old_proxies, env_before,
                   llm, messages, calls, exc, result>>

\* First line of a node: llm = get_llm(...).
NodeEnter(p) ==
    /\ pc[p] = "node"
    /\ EnterGetLlm(p, NodeLlmArgs(node[p]))
    /\ UNCHANGED <<env, globals, kind, data, state, node, messages, calls,
                   exc, result>>

\* messages = [...]; response = llm.invoke(messages): the call is sent.
NodeInvoke(p) ==
    /\ pc[p] = "node_invoke"
    /\ messages' = [messages EXCEPT ![p] = NodeMessages(node[p], state[p])]
    /\ calls' = [calls EXCEPT ![p] = Append(@, Call(node[p], "pending", <<>>))]
    /\ pc' = [pc EXCEPT ![p] = "invoking"]
    /\ UNCHANGED <<env, globals, kind, data, state, node, llm_args, vi,
                   old_proxies, env_before, llm, exc, result>>

\* llm.invoke returns: the node writes its slot and the marker and returns
\* the state; the graph follows the node's edge, to the next node or to END,
\* where graph.invoke returns the state to the caller.
NodeReturn(p, content) ==
    /\ pc[p] = "invoking"
    /\ LET s == NodeWrite(node[p], state[p], content)
           next == graph.edges[node[p]]
       IN /\ state' = [state EXCEPT ![p] = s]
          /\ IF next = END
             THEN /\ pc' = [pc EXCEPT ![p] = "done"]
                  /\ result' = [result EXCEPT ![p] =
                                  [outcome |-> "state", status |-> 0,
                                   body |-> s]]
                  /\ node' = node
             ELSE /\ pc' = [pc EXCEPT ![p] = "node"]
                  /\ node' = [node EXCEPT ![p] = next]
                  /\ result' = result
    /\ calls' = [calls EXCEPT ![p] = Settle(@, "returned", content)]
    /\ UNCHANGED <<env, globals, kind, data, llm_args, vi, old_proxies,
                   env_before, llm, messages, exc>>

\* Mutant: the failed node is run again (a retry policy on the graph).
NodeFail_retry(p) ==
    /\ pc[p] = "invoking"
    /\ exc' = [exc EXCEPT ![p] = "ProviderError"]
    /\ pc' = [pc EXCEPT ![p] = "node"]
    /\ calls' = [calls EXCEPT ![p] = Settle(@, "failed", <<>>)]
    /\ UNCHANGED <<env, globals, kind, data, state, node, llm_args, vi,
                   old_proxies, env_before, llm, messages, result>>

\* llm.invoke raises: no node catches, so the exception leaves the node and
\* graph.invoke with it; the state is not written.
NodeFail(p) ==
    /\ pc[p] = "invoking"
    /\ exc' = [exc EXCEPT ![p] = "ProviderError"]
    /\ result' = [result EXCEPT ![p] = Raised(kind[p], "ProviderError")]
    /\ pc' = [pc EXCEPT ![p] = "raised"]
    /\ calls' = [calls EXCEPT ![p] = Settle(@, "failed", <<>>)]
    /\ UNCHANGED <<env, globals, kind, data, state, node, llm_args, vi,
                   old_proxies, env_before, llm, messages>>

\* ----------------------------------------------------------- process_agent
StartSingle(p, agent_id, user_input, context) ==
    /\ started
    /\ pc[p] = "idle"
    /\ Alone(p)
    /\ kind' = [kind EXCEPT ![p] = "single"]
    /\ data' = [data EXCEPT ![p] = [agent_id |-> agent_id,
                                    user_input |-> user_input,
                                    context |-> context]]
    /\ pc' = [pc EXCEPT ![p] = "pa_check"]
    /\ UNCHANGED <<env, globals, state, node, llm_args, vi, old_proxies,
                   env_before, llm, messages, calls, exc, result>>

\* Mutant: the client is built before the identifier is looked up.
PaCheck_client_first(p) ==
    /\ pc[p] = "pa_check"
    /\ EnterGetLlm(p, [temperature |-> 7, max_tokens |-> 4000])
    /\ UNCHANGED <<env, globals, kind, data, state, node, messages, calls,
                   exc, result>>

\* `if agent_id not in AGENTS_CONFIG: raise HTTPException(400, ...)` inside
\* the try, whose `except Exception` catches it and raises
\* HTTPException(500, detail=str(e)); else get_llm(temperature=temp).
PaCheck(p) ==
    /\ pc[p] = "pa_check"
    /\ IF data[p].agent_id \notin DOMAIN AGENTS_CONFIG
       THEN /\ exc' = [exc EXCEPT ![p] = "HTTPException"]
            /\ result' = [result EXCEPT ![p] =
                            Raised("single", "400: Agente invalido")]
            /\ pc' = [pc EXCEPT ![p] = "done"]
            /\ UNCHANGED <<llm_args, vi, old_proxies, env_before, llm>>
       ELSE /\ EnterGetLlm(p, [temperature |->
                                  AGENTS_CONFIG[data[p].agent_id].temperature,
                               max_tokens |-> 4000])
            /\ UNCHANGED <<exc, result>>
    /\ UNCHANGED <<env, globals, kind, data, state, node, messages, calls>>

\* messages = [...]; response = llm.invoke(messages): the call is sent.
PaInvoke(p) ==
    /\ pc[p] = "pa_invoke"
    /\ messages' = [messages EXCEPT ![p] =
                      process_agent_messages(data[p].agent_id,
                                             data[p].user_input,
                                             data[p].context)]
    /\ calls' = [calls EXCEPT ![p] =
                   Append(@, Call(data[p].agent_id, "pending", <<>>))]
    /\ pc' = [pc EXCEPT ![p] = "pa_invoking"]
    /\ UNCHANGED <<env, globals, kind, data, state, node, llm_args, vi,
                   old_proxies, env_before, llm, exc, result>>

PaReturn(p, content) ==
    /\ pc[p] = "pa_invoking"
    /\ result' = [result EXCEPT ![p] =
                    [outcome |-> "response", status |-> 200,
                     body |-> [success |-> TRUE, response |-> content,
                               agent_name |->
                                   AGENTS_CONFIG[data[p].agent_id].name,
                               error |-> None]]]
    /\ pc' = [pc EXCEPT ![p] = "done"]
    /\ calls' = [calls EXCEPT ![p] = Settle(@, "returned", content)]
    /\ UNCHANGED <<env, globals, kind, data, state, node, llm_args, vi,
                   old_proxies, env_before, llm, messages, exc>>

PaFail(p) ==
    /\ pc[p] = "pa_invoking"
    /\ exc' = [exc EXCEPT ![p] = "ProviderError"]
    /\ result' = [result EXCEPT ![p] = Raised("single", "ProviderError")]
    /\ pc' = [pc EXCEPT ![p] = "done"]
    /\ calls' = [calls EXCEPT ![p] = Settle(@, "failed", <<>>)]
    /\ UNCHANGED <<env, globals, kind, data, state, node, llm_args, vi,
                   old_proxies, env_before, llm, messages>>

\* ------------------------------------------------------- concurrent callers
\* A thread calls get_llm() with its defaults while others may be inside it.
CallGetLlm(p) ==
    /\ started
    /\ pc[p] = "idle"
    /\ kind' = [kind EXCEPT ![p] = "llm"]
    /\ EnterGetLlm(p, [temperature |-> 7, max_tokens |-> 4000])
    /\ UNCHANGED <<env, globals, data, state, node, messages, calls, exc,
                   result>>

\* The caller has its answer; the slot serves the next request.
Reset(p) ==
    /\ pc[p] \in {"done", "raised"}
    /\ pc' = [pc EXCEPT ![p] = "idle"]
    /\ kind' = [kind EXCEPT ![p] = None]
    /\ data' = [data EXCEPT ![p] = NoData]
    /\ state' = [state EXCEPT ![p] = NoState]
    /\ node' = [node EXCEPT ![p] = None]
    /\ llm_args' = [llm_args EXCEPT ![p] = NoArgs]
    /\ vi' = [vi EXCEPT ![p] = 0]
    /\ old_proxies' = [old_proxies EXCEPT ![p] = NoProxies]
    /\ env_before' = [env_before EXCEPT ![p] = NoProxies]
    /\ llm' = [llm EXCEPT ![p] = NoLlm]
    /\ messages' = [messages EXCEPT ![p] = <<>>]
    /\ calls' = [calls EXCEPT ![p] = <<>>]
    /\ exc' = [exc EXCEPT ![p] = None]
    /\ result' = [result EXCEPT ![p] = NoResult]
    /\ UNCHANGED <<env, globals>>

\* ---------------------------------------------------------- specifications
GetLlmStep(p) ==
    \/ GlmTest(p)
    \/ GlmPop(p)
    \/ GlmKey(p)
    \/ GlmConstruct(p)
    \/ GlmRestore(p)
    \/ GlmRestoreErr(p)

\* Requests served one at a time.
Next ==
    \/ startup_event
    \/ \E p \in Procs :
         \/ \E u \in UserInputs : StartRun(p, u)
         \/ NodeEnter(p)
         \/ NodeInvoke(p)
         \/ \E t \in ModelTexts : NodeReturn(p, t)
         \/ NodeFail(p)
         \/ \E a \in RequestIds, u \in UserInputs, c \in Contexts :
                StartSingle(p, a, u, c)
         \/ PaCheck(p)
         \/ PaInvoke(p)
         \/ \E t \in ModelTexts : PaReturn(p, t)
         \/ PaFail(p)
         \/ GetLlmStep(p)
         \/ Reset(p)

Spec == Init /\ [][Next]_vars

\* Threads inside get_llm at the same time, interleaved at every step.
NextThreads ==
    \/ startup_event
    \/ \E p \in Procs :
         \/ CallGetLlm(p)
         \/ GetLlmStep(p)

SpecThreads == Init /\ [][NextThreads]_vars

\* A deterministic stub in the place of the model: its answer is a fixed
\* function of the system instruction and of the last message it receives.
Stub(msgs) ==
    <<"reply", msgs[1].content[2]>> \o msgs[Len(msgs)].content

\* A caller starts a run of the compiled graph while other runs may be
\* under way (graph.invoke in a thread of its own).
StartRunThread(p, user_input) ==
    /\ started
    /\ graph # NoGraph
    /\ pc[p] = "idle"
    /\ kind' = [kind EXCEPT ![p] = "run"]
    /\ state' = [state EXCEPT ![p] = InitialState(user_input)]
    /\ node' = [node EXCEPT ![p] = graph.entry_point]
    /\ pc' = [pc EXCEPT ![p] = "node"]
    /\ UNCHANGED <<env, globals, data, llm_args, vi, old_proxies, env_before,
                   llm, messages, calls, exc, result>>

\* The proxy variables a deployment behind one HTTP proxy sets.
RunProxyVars == {"HTTP_PROXY"}

\* Init with the proxy environment either empty or that of RunProxyVars.
InitRuns ==
    /\ Init
    /\ \A v \in ProxyVarSet \ RunProxyVars : env[v] = Unset

\* Concurrent pipeline runs against the stub, interleaved at every step.
NextRuns ==
    \/ startup_event
    \/ \E p \in Procs :
         \/ \E u \in UserInputs : StartRunThread(p, u)
         \/ NodeEnter(p)
         \/ NodeInvoke(p)
         \/ NodeReturn(p, Stub(messages[p]))
         \/ GetLlmStep(p)

SpecRuns == InitRuns /\ [][NextRuns]_vars

\* ------------------------------------------------------------------ claims
\* The stage order the claims speak of.
StageOrder ==
    <<"discovery", "structure", "design", "implementation", "refinement">>

StageIndex(a) == CHOOSE i \in 1..Len(StageOrder) : StageOrder[i] = a

Runs == {p \in Procs : kind[p] = "run"}

\* The agents of the calls of task p, in the order they were made.
CalledAgents(p) == [i \in 1..Len(calls[p]) |-> calls[p][i].agent]

\* The current-stage marker a run shows once its n-th stage has returned.
MarkerAfter(n) == IF n = 0 THEN <<>> ELSE <<StageOrder[n]>>

\* Stage a of run p has completed without error: its model call returned.
Completed(p, a) ==
    \E i \in 1..Len(calls[p]) :
        calls[p][i].agent = a /\ calls[p][i].status = "returned"

\* The model call of stage a of run p has failed.
FailedAt(p, a) ==
    \E i \in 1..Len(calls[p]) :
        calls[p][i].agent = a /\ calls[p][i].status = "failed"

\* C1: a run calls the model for the stages in the order discovery,
\* structure, design, implementation, refinement, each at most once; a run
\* that ends without a failure has called all five; and when the call of a
\* stage is sent, the call of every earlier stage has returned (the marker
\* names the predecessor and no earlier call is pending).
C1_StagesInOrder ==
    \A p \in Runs :
        /\ Len(calls[p]) <= Len(StageOrder)
        /\ CalledAgents(p) = SubSeq(StageOrder, 1, Len(calls[p]))
        /\ \A i \in 1..(Len(calls[p]) - 1) : calls[p][i].status = "returned"
        /\ pc[p] = "invoking" =>
              /\ calls[p][Len(calls[p])].status = "pending"
              /\ state[p].current_step = MarkerAfter(Len(calls[p]) - 1)
        /\ pc[p] = "done" =>
              /\ CalledAgents(p) = StageOrder
              /\ \A i \in 1..Len(calls[p]) : calls[p][i].status = "returned"

C1_Witness ==
    \E p \in Runs :
        /\ pc[p] = "done"
        /\ CalledAgents(p) = StageOrder
        /\ result[p].outcome = "state"

\* C2: when the model call of stage k fails, the caller of the run receives
\* a state whose error slot is set, whose slots before k are populated and
\* whose slots from k on are empty.
C2_FailureReturnsState ==
    \A p \in Runs : \A k \in 1..Len(StageOrder) :
        (FailedAt(p, StageOrder[k]) /\ pc[p] \in {"done", "raised"}) =>
            /\ result[p].outcome = "state"
            /\ result[p].body.error # <<>>
            /\ \A j \in 1..(k - 1) : result[p].body[Slot(StageOrder[j])] # <<>>
            /\ \A j \in k..Len(StageOrder) :
                   result[p].body[Slot(StageOrder[j])] = <<>>

C4_SlotIffCompleted ==
    \A p \in Runs : \A a \in AgentIds :
        state[p][Slot(a)] # <<>> <=> Completed(p, a)

\* C4 amended: the slot of stage k is non-empty only if stage k has
\* completed without error, and once stage k has completed its slot holds
\* the text the model returned for it, which may be the empty text.
C4_SlotHoldsReturnedText ==
    \A p \in Runs : \A a \in AgentIds :
        /\ state[p][Slot(a)] # <<>> => Completed(p, a)
        /\ \A i \in 1..Len(calls[p]) :
              (calls[p][i].agent = a /\ calls[p][i].status = "returned") =>
                  state[p][Slot(a)] = calls[p][i].content

C4_Witness ==
    \E p \in Runs :
        /\ pc[p] = "done"
        /\ Completed(p, "design")
        /\ state[p].design_output = <<>>
        /\ state[p].structure_output # <<>>

\* get_llm of task p was called and control has left it.
GlmPcs == {"glm_test", "glm_pop", "glm_key", "glm_construct", "glm_restore",
           "glm_restore_err"}

GetLlmEnded(p) == llm_args[p] # NoArgs /\ pc[p] \notin GlmPcs

\* C5: after an invocation of get_llm that ran alone, every proxy variable
\* has the value it had before it (set to the same value, or still unset),
\* whether get_llm returned the client or raised.
C5_ProxiesRestored ==
    \A p \in Procs : GetLlmEnded(p) => env = env_before[p]

C5_Witness ==
    \E p \in Procs :
        /\ GetLlmEnded(p)
        /\ exc[p] \in {"ValueError", "ClientError"}
        /\ \A v \in ProxyVarSet : env_before[p][v] = ProxyValue(v)
        /\ env = env_before[p]

\* The provider call llm.invoke of task p is in progress.
Invoking(p) == pc[p] \in {"invoking", "pa_invoking"}

AllUnset == \A v \in ProxyVarSet : env[v] = Unset

\* C6 as stated: while llm.invoke is in progress no proxy variable is set.
C6_ProxiesClearedDuringCall ==
    \A p \in Procs : Invoking(p) => AllUnset

\* C6 amended: get_llm keeps the proxy variables cleared while it checks the
\* credential and constructs the client, and restores them before it
\* returns the client; while llm.invoke is in progress every proxy variable
\* holds again the value it had before get_llm was called.
C6_ProxiesClearedForConstruction ==
    \A p \in Procs :
        /\ pc[p] \in {"glm_key", "glm_construct"} => AllUnset
        /\ Invoking(p) => env = env_before[p]

C6_Witness ==
    \E p \in Procs :
        /\ Invoking(p)
        /\ \A v \in ProxyVarSet : env[v] = ProxyValue(v)
        /\ llm[p] # NoLlm

\* get_llm of task p has finished its clear and not begun its restore.
InWindow(p) == pc[p] \in {"glm_key", "glm_construct"}

\* C7: the clear/restore windows of concurrent invocations of get_llm
\* exclude one another: no other invocation writes a proxy variable inside
\* the window of an invocation, so each invocation sees the four proxy
\* variables unset from the end of its clear to the start of its restore.
C7_WindowsExclusive ==
    \A p \in Procs : InWindow(p) => AllUnset

\* C8: a process_agent request with an unregistered identifier ends in a
\* failure and makes no model call: get_llm is never entered (no arguments,
\* no snapshot of the environment, no client), llm.invoke is never called.
UnknownAgent(p) == kind[p] = "single" /\ data[p].agent_id \notin AgentIds

C8_UnknownAgentNoCall ==
    \A p \in Procs : UnknownAgent(p) =>
        /\ pc[p] \in {"pa_check", "done"}
        /\ calls[p] = <<>>
        /\ messages[p] = <<>>
        /\ llm_args[p] = NoArgs
        /\ llm[p] = NoLlm
        /\ env_before[p] = NoProxies
        /\ old_proxies[p] = NoProxies
        /\ pc[p] = "done" =>
              /\ result[p].outcome = "http_error"
              /\ exc[p] # None

C8_Witness ==
    \E p \in Procs :
        /\ UnknownAgent(p)
        /\ pc[p] = "done"
        /\ result[p].outcome = "http_error"
        /\ \E v \in ProxyVarSet : env[v] # Unset

\* C9: the messages process_agent sends are the agent's system instruction,
\* then a message carrying the context exactly when the context is not
\* empty, then the user input (agent discovery) or the continuation marker
\* (any other agent), whatever the user input is.
C9_SingleAgentMessages ==
    \A p \in Procs : pc[p] = "pa_invoking" =>
        LET m == messages[p]
            d == data[p]
        IN /\ Len(m) = (IF d.context # <<>> THEN 3 ELSE 2)
           /\ m[1].type = "system"
           /\ m[1].content = AGENTS_CONFIG[d.agent_id].system_prompt
           /\ d.context # <<>> =>
                 /\ m[2].type = "human"
                 /\ m[2].content = <<"Contexto:\n">> \o d.context
           /\ m[Len(m)].type = "human"
           /\ m[Len(m)].content =
                 (IF d.agent_id = "discovery" THEN d.user_input
                  ELSE <<"Continue.">>)

C9_Witness ==
    \E p \in Procs :
        /\ pc[p] = "pa_invoking"
        /\ data[p].agent_id = "refinement"
        /\ data[p].user_input # <<>>
        /\ data[p].context # <<>>
        /\ Len(messages[p]) = 3

\* The text the model returned for stage a of run p.
Output(p, a) == calls[p][StageIndex(a)].content

\* Texts a slot could hold, one of them never returned by the model.
ProbeTexts == ModelTexts \cup {<<"probe">>}

\* C10: the message a node sends is the raw user input for discovery and
\* contains the output of the preceding stage for every later stage, and
\* both the design and the structure outputs for implementation; it does
\* not depend on the slot of the node's own stage or of a later one.
C10_StageContexts ==
    \A p \in Runs : pc[p] = "invoking" =>
        LET a == node[p]
            ctx == messages[p][2].content
        IN /\ messages[p][2].type = "human"
           /\ a = "discovery" => ctx = state[p].user_input
           /\ StageIndex(a) > 1 =>
                 Contains(ctx, Output(p, StageOrder[StageIndex(a) - 1]))
           /\ a = "implementation" =>
                 /\ Contains(ctx, Output(p, "design"))
                 /\ Contains(ctx, Output(p, "structure"))
           /\ \A j \in StageIndex(a)..Len(StageOrder) : \A t \in ProbeTexts :
                 NodeMessages(a, [state[p] EXCEPT ![Slot(StageOrder[j])] = t])
                     = messages[p]

C10_Witness ==
    \E p \in Runs :
        /\ pc[p] = "invoking"
        /\ node[p] = "implementation"
        /\ Output(p, "design") # <<>>
        /\ Output(p, "structure") # <<>>
        /\ state[p].user_input # <<>>

\* The credential is present and begins with "sk-".
KeyOk ==
    /\ OPENAI_API_KEY.present
    /\ Len(OPENAI_API_KEY.value) >= 3
    /\ OPENAI_API_KEY.value[1] = "s"
    /\ OPENAI_API_KEY.value[2] = "k"
    /\ OPENAI_API_KEY.value[3] = "-"

\* C11: get_llm checks the credential before it constructs the client: with
\* an absent, empty or wrongly prefixed key it raises the configuration
\* error, no client exists and no model call is made; control reaches the
\* constructor, a client or a model call only with a good key, and with a
\* good key the check raises nothing.
C11_CredentialCheckedFirst ==
    \A p \in Procs :
        /\ (pc[p] \in {"glm_construct", "glm_restore"} \/ llm[p] # NoLlm
              \/ Invoking(p) \/ calls[p] # <<>>) => KeyOk
        /\ (~KeyOk /\ GetLlmEnded(p)) =>
              /\ exc[p] = "ValueError"
              /\ llm[p] = NoLlm
              /\ calls[p] = <<>>
              /\ result[p].outcome \in {"http_error", "exception"}
        /\ KeyOk => exc[p] # "ValueError"

C11_Witness ==
    \E p \in Procs :
        /\ GetLlmEnded(p)
        /\ OPENAI_API_KEY = Key(<<"p", "k", "-", "1">>)
        /\ exc[p] = "ValueError"
        /\ llm[p] = NoLlm

\* The characters startup_event printed of the key: the diagnostic line
\* without its label and its "..." mark.
PrintedKeyChars == Len(stdout[2]) - 2

\* C12: the startup diagnostic never shows a valid credential in full: the
\* key is not a part of the printed line, and fewer characters are printed
\* than the key has.
C12_KeyNeverPrintedInFull ==
    (started /\ KeyOk) =>
        /\ ~Contains(stdout[2], OPENAI_API_KEY.value)
        /\ PrintedKeyChars < Len(OPENAI_API_KEY.value)

\* C13: with a missing or malformed credential the graph is never built
\* and startup_event still runs to its last print; the graph is built only
\* by a startup whose credential check passed, and no run exists without it.
C13_NoGraphWithoutCredential ==
    /\ graph # NoGraph => (started /\ KeyOk)
    /\ started =>
          /\ (graph = build_graph) <=> KeyOk
          /\ stdout[Len(stdout)] = <<"Acesse">>
          /\ ~KeyOk => stdout[2][1] = "Erro: "
    /\ \A p \in Procs : kind[p] = "run" => graph # NoGraph

C13_Witness ==
    /\ started
    /\ OPENAI_API_KEY = Absent
    /\ graph = NoGraph
    /\ \E p \in Procs : pc[p] = "done" /\ result[p].status = 500

\* The place in the stage order a marker names (0: no stage yet).
MarkerIndex(marker) == IF marker = <<>> THEN 0 ELSE StageIndex(marker[1])

\* How many calls of a call log have returned.
ReturnedCalls(log) ==
    Cardinality({i \in 1..Len(log) : log[i].status = "returned"})

\* C15: in every state a run reaches, the marker names the last stage
\* whose model call returned (no stage before the first has), and a step of
\* the run never moves it back; in the done state the five slots hold the
\* five returned texts, the marker names refinement and the error slot is
\* empty; once the call of stage k has failed the marker names stage k-1.
C15_MarkerFollowsStages ==
    [][\A p \in Procs : kind'[p] = "run" =>
          /\ state'[p].current_step = MarkerAfter(ReturnedCalls(calls'[p]))
          /\ kind[p] = "run" =>
                MarkerIndex(state'[p].current_step)
                    >= MarkerIndex(state[p].current_step)
          /\ pc'[p] = "done" =>
                /\ state'[p].current_step = <<"refinement">>
                /\ state'[p].error = <<>>
                /\ \A i \in 1..Len(StageOrder) :
                      /\ calls'[p][i].status = "returned"
                      /\ state'[p][Slot(StageOrder[i])] = calls'[p][i].content
          /\ \A k \in 1..Len(calls'[p]) :
                calls'[p][k].status = "failed" =>
                    state'[p].current_step = MarkerAfter(k - 1)]_vars

C15_Witness ==
    \E p \in Runs :
        /\ pc[p] = "raised"
        /\ FailedAt(p, "design")
        /\ state[p].current_step = <<"structure">>

\* C16: the step in which the model call of a node returns changes, of the
\* run's state, only the node's own slot and the marker; every other step
\* of the run, the one in which the model call fails included, changes no
\* field of it.
C16_NodeFrame ==
    [][\A p \in Procs : (kind[p] = "run" /\ kind'[p] = "run") =>
          IF pc[p] = "invoking" /\ calls'[p][Len(calls'[p])].status = "returned"
          THEN \A f \in DOMAIN state[p] \ {Slot(node[p]), "current_step"} :
                   state'[p][f] = state[p][f]
          ELSE state'[p] = state[p]]_vars

C16_Witness ==
    \E p \in Runs :
        /\ pc[p] = "node"
        /\ node[p] = "implementation"
        /\ state[p].current_step = <<"design">>
        /\ state[p].user_input # <<>>
        /\ state[p].discovery_output # <<>>
        /\ state[p].structure_output # <<>>
        /\ state[p].design_output # <<>>

\* C17: the client a node calls has the node's fixed sampling parameters:
\* 0.9 and 1500 for discovery, 0.7 and 1500 for structure and design, 0.7
\* and 4000 for implementation and refinement, whatever the input and the
\* earlier outputs.
C17_FixedSampling ==
    \A p \in Runs : pc[p] \in {"node_invoke", "invoking"} =>
        /\ llm[p].temperature = (IF node[p] = "discovery" THEN 9 ELSE 7)
        /\ llm[p].max_tokens =
              (IF node[p] \in {"discovery", "structure", "design"}
               THEN 1500 ELSE 4000)
        /\ llm[p].temperature = llm_args[p].temperature
        /\ llm[p].max_tokens = llm_args[p].max_tokens

C17_Witness ==
    \E p \in Runs :
        /\ pc[p] = "invoking"
        /\ node[p] = "implementation"
        /\ llm[p].max_tokens = 4000
        /\ state[p].user_input # <<>>
        /\ state[p].discovery_output # <<>>

\* The request of task p to process_agent has been answered with a failure:
\* its identifier is not registered, or its model call failed.
SingleFailed(p) ==
    /\ kind[p] = "single"
    /\ pc[p] = "done"
    /\ \/ UnknownAgent(p)
       \/ calls[p] # <<>> /\ calls[p][Len(calls[p])].status = "failed"

\* C18: a failed process_agent request is answered with an AgentResponse
\* whose success flag is false, with an error text and no output text.
C18_StructuredFailure ==
    \A p \in Procs : SingleFailed(p) =>
        /\ result[p].outcome = "response"
        /\ result[p].body.success = FALSE
        /\ result[p].body.error # None
        /\ result[p].body.response = None

\* C20: a request with an unregistered identifier is answered with status
\* 400 and the detail 'Agente invalido'.
C20_UnknownAgentIs400 ==
    \A p \in Procs : (UnknownAgent(p) /\ pc[p] = "done") =>
        /\ result[p].outcome = "http_error"
        /\ result[p].status = 400
        /\ result[p].body = "Agente invalido"

\* C19: once every concurrent invocation of get_llm has ended, each proxy
\* variable that was set before the first of them is set to its original
\* value, and no invocation has failed because another one removed a
\* variable first.
C19_ConcurrentRestore ==
    (/\ \A p \in Procs : pc[p] \in {"idle", "done", "raised"}
     /\ \E p \in Procs : kind[p] = "llm") =>
        /\ \A v \in ProxyVarSet :
              (\E p \in Procs : env_before[p][v] # Unset) =>
                  env[v] = ProxyValue(v)
        /\ \A p \in Procs : exc[p] # "KeyError"

\* The five output slots of a run's state.
Slots(st) == [a \in AgentIds |-> st[Slot(a)]]

\* Run p has ended, and not because the client's constructor failed (the
\* stub's constructor does not fail).
EndedWithStub(p) ==
    /\ kind[p] = "run"
    /\ pc[p] \in {"done", "raised"}
    /\ exc[p] # "ClientError"

\* C14: against the deterministic stub, two runs given the same user input
\* both end in the done state with the same five slot values, also when
\* they execute concurrently.
C14_StubRunsAgree ==
    \A p, q \in Procs :
        (/\ EndedWithStub(p)
         /\ EndedWithStub(q)
         /\ state[p].user_input = state[q].user_input) =>
            /\ pc[p] = "done"
            /\ pc[q] = "done"
            /\ Slots(state[p]) = Slots(state[q])

====
